---- MODULE Spec2Model ----
(***************************************************************************)
(* Model of the two tool servers of the repository:                        *)
(*   src/github3.py    github_get_file, github_list_directory,             *)
(*                     github_search_code, check_github_connection         *)
(*   src/web_search.py search_duckduckgo, web_search                       *)
(*                                                                         *)
(* Every tool call is stateless: a behaviour is one call.  The action of a *)
(* tool draws the call's arguments and the remote side's answer, and       *)
(* records what the handler did: the requests it issued and how it ended   *)
(* (a returned value or a raised exception).                               *)
(*                                                                         *)
(* Text is a sequence of tokens (strings); concatenation is \o.  A Python  *)
(* outcome is [kind |-> "return", val |-> v] or                            *)
(* [kind |-> "raise", exc |-> type, msg |-> str(e)].                       *)
(***************************************************************************)
EXTENDS Integers, Sequences, FiniteSets, TLC

VARIABLES
    pc,        \* "idle" before the call, "done" after it
    call,      \* the tool called and its arguments
    net,       \* the remote side's answer to the call's request
    requests,  \* the requests the handler issued
    results,   \* the list search_duckduckgo handed back
    scanned,   \* the number of result blocks its loop visited
    ret        \* how the handler ended

vars == <<pc, call, net, requests, results, scanned, ret>>

(*************************** bounds ***************************************)
MaxRepoLen == 3
MaxEntries == 2
MaxItems == 1
MaxBlocks == 3
MaxNum == 3
MaxLinkLen == 5

(*************************** helpers **************************************)
SeqsUpTo(S, n) == UNION {[1..k -> S] : k \in 0..n}

Return(v) == [kind |-> "return", val |-> v]

Raise(e, m) == [kind |-> "raise", exc |-> e, msg |-> m]

RECURSIVE IndexFrom(_, _, _)
\* str.find(c, start): first position >= start holding c, 0 when there is none
IndexFrom(s, c, start) ==
    IF start > Len(s) THEN 0
    ELSE IF s[start] = c THEN start
    ELSE IndexFrom(s, c, start + 1)

\* str.split(sep): the pieces between the occurrences of sep, empty ones kept
RECURSIVE Split(_, _)
Split(s, sep) ==
    LET i == IndexFrom(s, sep, 1)
    IN IF i = 0 THEN <<s>>
       ELSE <<SubSeq(s, 1, i - 1)>> \o Split(SubSeq(s, i + 1, Len(s)), sep)

\* str.split(sep, 1): at most one cut, at the first sep
Split1(s, sep) ==
    LET i == IndexFrom(s, sep, 1)
    IN IF i = 0 THEN <<s>>
       ELSE <<SubSeq(s, 1, i - 1), SubSeq(s, i + 1, Len(s))>>

\* sep.join(parts)
RECURSIVE Join(_, _)
Join(parts, sep) ==
    IF parts = <<>> THEN <<>>
    ELSE IF Len(parts) = 1 THEN parts[1]
    ELSE parts[1] \o sep \o Join(Tail(parts), sep)

\* an f-string's rendering of an integer
IntStr(n) ==
    CASE n = 0 -> "0"
      [] n = 1 -> "1"
      [] n = 2 -> "2"
      [] n = 3 -> "3"
      [] n = 4 -> "4"
      [] n = 5 -> "5"
      [] n = 7 -> "7"
      [] n = 200 -> "200"
      [] n = 404 -> "404"
      [] OTHER -> "int"

(*************************** the remote side ******************************)
NoNet == [kind |-> "none", code |-> 0, text |-> "", body |-> [shape |-> "none"]]

\* requests.get raised (connection refused, DNS failure, ...)
NetRaise == [kind |-> "raise", code |-> 0, text |-> "Connection refused",
             body |-> [shape |-> "none"]]

\* a response with a status other than 200
NetStatus == [kind |-> "response", code |-> 404, text |-> "Not Found",
              body |-> [shape |-> "none"]]

NetOk(b) == [kind |-> "response", code |-> 200, text |-> "", body |-> b]

\* a 200 response whose text is no JSON: response.json() raises
BodyInvalid == [shape |-> "invalid"]

EntryKeys == {"type", "name", "path", "size"}

EntryOf(K, t) ==
    [k \in K |-> CASE k = "type" -> t
                   [] k = "name" -> "a"
                   [] k = "path" -> "p"
                   [] k = "size" -> 7]

\* the children of a directory listing; a key may be missing
Entries == {EntryOf(K, t) : K \in SUBSET EntryKeys, t \in {"file", "dir"}}

ListBodies == {[shape |-> "list", items |-> its] : its \in SeqsUpTo(Entries, MaxEntries)}

FileKeys == {"type", "content", "encoding"}

\* "aGk=" is base64 of "hi"; "/w==" decodes to the byte FF, which is no UTF-8;
\* "a" has incorrect padding
Payloads == {"aGk=", "/w==", "a"}

ObjectOf(K, t, c, e) ==
    [k \in K |-> CASE k = "type" -> t
                   [] k = "content" -> c
                   [] k = "encoding" -> e]

\* the objects of the contents API; a key may be missing
Objects ==
    {ObjectOf(K, t, c, e) : K \in SUBSET FileKeys, t \in {"file", "dir", "symlink"},
                            c \in Payloads, e \in {"base64", "none"}}

ObjectBodies == {[shape |-> "object", obj |-> o] : o \in Objects}

ItemKeys == {"name", "path", "html_url"}

ItemOf(K) ==
    [k \in K |-> CASE k = "name" -> "a"
                   [] k = "path" -> "p"
                   [] k = "html_url" -> "u"]

\* the matches of a code search; a key may be missing
Items == {ItemOf(K) : K \in SUBSET ItemKeys}

\* the search envelope, with or without its "items" member
SearchBodies ==
    {[shape |-> "object", obj |-> [items |-> its]] : its \in SeqsUpTo(Items, MaxItems)}
        \cup {[shape |-> "object", obj |-> [total_count |-> 0]]}

SearchNets == {NetRaise, NetStatus, NetOk(BodyInvalid)} \cup {NetOk(b) : b \in SearchBodies}

\* the rate-limit document, whole or cut short at any level
RateBodies ==
    {[shape |-> "object", obj |-> o] :
        o \in {[resources |-> [core |-> [remaining |-> 5]]],
               [resources |-> [core |-> [limit |-> 5]]],
               [resources |-> [search |-> 1]],
               [message |-> "m"]}}
        \cup {[shape |-> "list", items |-> <<>>]}

RateNets == {NetRaise, NetStatus, NetOk(BodyInvalid)} \cup {NetOk(b) : b \in RateBodies}

\* the request ran into its 30 s timeout: httpx's timeout errors carry no text
NetTimeout == [kind |-> "raise", code |-> 0, text |-> "", body |-> [shape |-> "none"]]

BlockKeys == {"title", "href", "snippet"}

\* hrefs of a result's title link: a redirect with its destination, a relative
\* link without one, an absolute link
Hrefs == {<<"/", "?", "uddg", "=", "%2F">>, <<"/", "x">>, <<"x">>}

BlockOf(K, h) ==
    [k \in K |-> CASE k = "title" -> <<" ", "T", " ">>
                   [] k = "href" -> h
                   [] k = "snippet" -> <<"S", " ">>]

\* a result block: its title link (with or without an href) and its snippet,
\* each found or not
Blocks ==
    {BlockOf(K, h) : K \in {J \in SUBSET BlockKeys : "href" \in J => "title" \in J},
                     h \in Hrefs}

PageNets ==
    {NetRaise, NetTimeout, NetStatus}
        \cup {NetOk([shape |-> "html", blocks |-> b]) : b \in SeqsUpTo(Blocks, MaxBlocks)}

LinkTokens == {"/", "?", "#", "&", "=", "[", "uddg", "x", "%2F"}

Links == SeqsUpTo(LinkTokens, MaxLinkLen)

ContentsNets == {NetRaise, NetStatus, NetOk(BodyInvalid)}
                  \cup {NetOk(b) : b \in ListBodies \cup ObjectBodies}

(*************************** src/github3.py *******************************)
ContentsRequest(owner, name) == [url |-> "contents", owner |-> owner, name |-> name]

SearchRequest(owner, name) == [url |-> "search/code", owner |-> owner, name |-> name]

RateLimitRequest == [url |-> "rate_limit", owner |-> <<>>, name |-> <<>>]

\* get_github_contents: what the helper hands back for the answer n
GetGithubContents(n) ==
    IF n.kind = "raise" THEN Raise("ConnectionError", n.text)
    ELSE IF n.code # 200
    THEN Return([shape |-> "object",
                 obj |-> [error |-> <<"GitHub API error: ", IntStr(n.code), " - ", n.text>>]])
    ELSE IF n.body.shape = "invalid" THEN Raise("JSONDecodeError", "Expecting value")
    ELSE Return(n.body)

\* "error" in contents: a key of an object; of a list, an element equal to the
\* string, and a listing's elements are objects, never strings
HasError(c) ==
    IF c.shape = "object" THEN "error" \in DOMAIN c.obj
    ELSE FALSE

RepoFormatError(repo) ==
    <<"Error: ", "Repository format should be 'owner/repo', got '">> \o repo \o <<"'">>

\* base64.b64decode(content).decode("utf-8")
B64DecodeUtf8(c) ==
    CASE c = "aGk=" -> Return(<<"hi">>)
      [] c = "/w==" -> Raise("UnicodeDecodeError", "invalid start byte")
      [] OTHER -> Raise("binascii.Error", "Incorrect padding")

\* what a handler did: how it ended and the requests it issued on the way
Did(r, reqs) == [ret |-> r, requests |-> reqs]

FilePath == "f"

DirPath == "d"

github_get_file(repo, n) ==
    LET parts == Split(repo, "/")
    IN IF Len(parts) # 2 THEN Did(Return(RepoFormatError(repo)), <<>>)
       ELSE
         LET reqs == <<ContentsRequest(parts[1], parts[2])>>
             got == GetGithubContents(n)
             c == got.val
         IN IF got.kind = "raise" THEN Did(got, reqs)
            ELSE IF HasError(c) THEN Did(Return(<<"Error: ">> \o c.obj.error), reqs)
            ELSE IF c.shape = "object" /\ "type" \in DOMAIN c.obj
            THEN IF c.obj.type # "file"
                 THEN Did(Return(<<"Error: ", "Path '", FilePath, "' is not a file">>), reqs)
                 ELSE IF "content" \notin DOMAIN c.obj
                 THEN Did(Return(<<"Error: ", "Could not decode file content">>), reqs)
                 ELSE IF "encoding" \notin DOMAIN c.obj
                 THEN Did(Raise("KeyError", "'encoding'"), reqs)
                 ELSE IF c.obj.encoding = "base64"
                 THEN Did(B64DecodeUtf8(c.obj.content), reqs)
                 ELSE Did(Return(<<"Error: ", "Could not decode file content">>), reqs)
            ELSE Did(Return(<<"Error: ", "Unexpected API response format">>), reqs)

\* the first of type, name, path the entry lacks: item[...] raises KeyError on it
MissingKey(item) ==
    IF "type" \notin DOMAIN item THEN "'type'"
    ELSE IF "name" \notin DOMAIN item THEN "'name'"
    ELSE IF "path" \notin DOMAIN item THEN "'path'"
    ELSE ""

\* the size looked up without the test of the entry's type
ItemSizeAnyType(item) ==
    IF "size" \in DOMAIN item THEN IntStr(item.size) ELSE "N/A"

\* item.get("size", "N/A") if item["type"] == "file" else "N/A"
ItemSize(item) ==
    IF item.type = "file"
    THEN IF "size" \in DOMAIN item THEN IntStr(item.size) ELSE "N/A"
    ELSE "N/A"

FormatItem(item) ==
    <<"\nType: ", item.type, "\nName: ", item.name, "\nPath: ", item.path,
      "\nSize: ", ItemSize(item), " bytes\n">>

Separator == <<"\n---\n">>

NotADirectory ==
    <<"Error: ", "Path '", DirPath,
      "' is not a directory or the API returned unexpected data">>

github_list_directory(repo, n) ==
    LET parts == Split(repo, "/")
    IN IF Len(parts) # 2 THEN Did(Return(RepoFormatError(repo)), <<>>)
       ELSE
         LET reqs == <<ContentsRequest(parts[1], parts[2])>>
             got == GetGithubContents(n)
             c == got.val
         IN IF got.kind = "raise" THEN Did(got, reqs)
            ELSE IF HasError(c) THEN Did(Return(<<"Error: ">> \o c.obj.error), reqs)
            ELSE IF c.shape # "list"
            THEN Did(Return(NotADirectory), reqs)
            ELSE IF \E i \in 1..Len(c.items) : MissingKey(c.items[i]) # ""
            THEN LET i == CHOOSE j \in 1..Len(c.items) :
                              /\ MissingKey(c.items[j]) # ""
                              /\ \A k \in 1..(j - 1) : MissingKey(c.items[k]) = ""
                 IN Did(Raise("KeyError", MissingKey(c.items[i])), reqs)
            ELSE Did(Return(Join([i \in 1..Len(c.items) |-> FormatItem(c.items[i])],
                                 Separator)), reqs)

\* item.get(key, 'Unknown')
GetOr(item, key, default) == IF key \in DOMAIN item THEN item[key] ELSE default

FormatMatch(i, item) ==
    <<"\nResult ", IntStr(i), ":\nName: ", GetOr(item, "name", "Unknown"),
      "\nPath: ", GetOr(item, "path", "Unknown"),
      "\nURL: ", GetOr(item, "html_url", "Unknown"), "\n">>

github_search_code(repo, n) ==
    LET parts == Split(repo, "/")
    IN IF Len(parts) # 2 THEN Did(Return(RepoFormatError(repo)), <<>>)
       ELSE
         LET reqs == <<SearchRequest(parts[1], parts[2])>>
         IN IF n.kind = "raise" THEN Did(Raise("ConnectionError", n.text), reqs)
            ELSE IF n.code # 200
            THEN Did(Return(<<"Error: ", "GitHub API error: ", IntStr(n.code), " - ", n.text>>),
                     reqs)
            ELSE IF n.body.shape = "invalid"
            THEN Did(Raise("JSONDecodeError", "Expecting value"), reqs)
            ELSE LET items == GetOr(n.body.obj, "items", <<>>)
                 IN IF items = <<>> THEN Did(Return(<<"No matching files found.">>), reqs)
                    ELSE Did(Return(Join([i \in 1..Len(items) |-> FormatMatch(i, items[i])],
                                         Separator)), reqs)

\* rate_limit_info.get("resources", {}).get("core", {}).get("remaining", 0)
CoreRemaining(obj) == GetOr(GetOr(GetOr(obj, "resources", <<>>), "core", <<>>), "remaining", 0)

\* the body of the try block of check_github_connection
ProbeConnection(n) ==
    IF n.kind = "raise" THEN Raise("ConnectionError", n.text)
    ELSE IF n.code = 200
    THEN IF n.body.shape = "invalid" THEN Raise("JSONDecodeError", "Expecting value")
         ELSE IF n.body.shape = "list"
         THEN Raise("AttributeError", "'list' object has no attribute 'get'")
         ELSE Return(<<"GitHub API connection successful. Remaining rate limit: ",
                       IntStr(CoreRemaining(n.body.obj)), " requests.">>)
    ELSE Return(<<"Error connecting to GitHub API: ", IntStr(n.code), " - ", n.text>>)

\* the probe without its try block
check_github_connection_unguarded(n) == Did(ProbeConnection(n), <<RateLimitRequest>>)

\* try: ... except Exception as e: return f"Error: {str(e)}"
check_github_connection(n) ==
    LET r == ProbeConnection(n)
    IN IF r.kind = "raise" THEN Did(Return(<<"Error: ", r.msg>>), <<RateLimitRequest>>)
       ELSE Did(r, <<RateLimitRequest>>)

(*************************** src/web_search.py ****************************)
Has(s, c) == IndexFrom(s, c, 1) # 0

\* urllib.parse._splitnetloc(url, 2): the netloc ends at the first of / ? #
SplitNetloc(url) ==
    LET ends == {IndexFrom(url, c, 3) : c \in {"/", "?", "#"}} \ {0}
        delim == IF ends = {} THEN Len(url) + 1
                 ELSE CHOOSE d \in ends : \A e \in ends : d <= e
    IN [netloc |-> SubSeq(url, 3, delim - 1), rest |-> SubSeq(url, delim, Len(url))]

\* the fragment cut off at the first #, then the query at the first ?
SplitRest(netloc, url) ==
    LET f == Split1(url, "#")
        q == Split1(f[1], "?")
    IN [netloc |-> netloc, path |-> q[1],
        query |-> IF Len(q) = 2 THEN q[2] ELSE <<>>,
        fragment |-> IF Len(f) = 2 THEN f[2] ELSE <<>>]

\* urllib.parse.urlparse on a link without a scheme: ValueError on a netloc
\* with an unmatched bracket
urlparse(url) ==
    IF Len(url) >= 2 /\ SubSeq(url, 1, 2) = <<"/", "/">>
    THEN LET n == SplitNetloc(url)
         IN IF \/ Has(n.netloc, "[") /\ ~Has(n.netloc, "]")
               \/ Has(n.netloc, "]") /\ ~Has(n.netloc, "[")
            THEN Raise("ValueError", "Invalid IPv6 URL")
            ELSE Return(SplitRest(n.netloc, n.rest))
    ELSE Return(SplitRest(<<>>, url))

\* urllib.parse.unquote: a percent escape becomes the character it names
Unquote(s) == [i \in 1..Len(s) |-> IF s[i] = "%2F" THEN "/" ELSE s[i]]

\* parse_qsl keeps a name=value piece only when its value is not blank
KeptPair(piece) ==
    LET nv == Split1(piece, "=")
    IN piece # <<>> /\ Len(nv) = 2 /\ nv[2] # <<>>

\* urllib.parse.parse_qsl(qs): the kept pairs, decoded, in order
parse_qsl(qs) ==
    IF qs = <<>> THEN <<>>
    ELSE LET kept == SelectSeq(Split(qs, "&"), KeptPair)
         IN [i \in 1..Len(kept) |->
                LET nv == Split1(kept[i], "=") IN <<Unquote(nv[1]), Unquote(nv[2])>>]

\* urllib.parse.parse_qs(qs): each name with the list of its values, in order
parse_qs(qs) ==
    LET pairs == parse_qsl(qs)
        names == {pairs[i][1] : i \in 1..Len(pairs)}
    IN [nm \in names |->
           LET mine == SelectSeq(pairs, LAMBDA pr : pr[1] = nm)
           IN [i \in 1..Len(mine) |-> mine[i][2]]]

Origin == <<"https://duckduckgo.com">>

Uddg == <<"uddg">>

\* the try block of the link step
ResolveRedirect(link) ==
    LET parsed_url == urlparse(link)
    IN IF parsed_url.kind = "raise" THEN parsed_url
       ELSE LET query_params == parse_qs(parsed_url.val.query)
            IN IF Uddg \in DOMAIN query_params
               THEN Return(query_params[Uddg][1])
               ELSE Return(Origin \o link)

\* the link step without its except clause
NormalizeLinkUnguarded(link) ==
    IF link # <<>> /\ link[1] = "/" THEN ResolveRedirect(link) ELSE Return(link)

\* the link step: if link.startswith('/'): try ... except: origin + link
NormalizeLink(link) ==
    IF link # <<>> /\ link[1] = "/"
    THEN LET r == ResolveRedirect(link)
         IN IF r.kind = "raise" THEN Return(Origin \o link) ELSE r
    ELSE Return(link)

RECURSIVE LStrip(_)
LStrip(t) == IF t # <<>> /\ t[1] = " " THEN LStrip(Tail(t)) ELSE t

RECURSIVE RStrip(_)
RStrip(t) ==
    IF t # <<>> /\ t[Len(t)] = " " THEN RStrip(SubSeq(t, 1, Len(t) - 1)) ELSE t

\* str.strip()
Strip(t) == RStrip(LStrip(t))

\* a title that is found and a snippet that is found
Complete(b) == {"title", "snippet"} \subseteq DOMAIN b

\* the loop's state: the records collected, the blocks visited, whether the
\* loop has ended (break, or an exception with its text)
Scanned(kind, found, i, msg) ==
    [kind |-> kind, results |-> found, scanned |-> i, msg |-> msg]

\* results.append({...}), then: if len(results) >= num_results: break
Collect(more, i, num_results) ==
    IF Len(more) >= num_results THEN Scanned("break", more, i, <<>>)
    ELSE Scanned("loop", more, i, <<>>)

Record(b, link) == [title |-> Strip(b.title), link |-> link, snippet |-> Strip(b.snippet)]

\* the rest of the loop body once the link step is over
AfterLink(found, b, i, num_results, link) ==
    IF link.kind = "raise" THEN Scanned("raise", found, i, <<link.msg>>)
    ELSE Collect(Append(found, Record(b, link.val)), i, num_results)

\* the loop body on block b, the i-th of the page; link = title_element.get('href')
\* is None without an href, and link.startswith raises
VisitBlock(found, b, i, num_results) ==
    IF Complete(b)
    THEN IF "href" \notin DOMAIN b
         THEN Scanned("raise", found, i,
                      <<"'NoneType' object has no attribute 'startswith'">>)
         ELSE AfterLink(found, b, i, num_results, NormalizeLink(b.href))
    ELSE Scanned("loop", found, i, <<>>)

\* for result in soup.find_all('div', class_='result'), from block i on
RECURSIVE ScanBlocks(_, _, _, _)
ScanBlocks(blocks, i, st, num_results) ==
    IF i > Len(blocks) \/ st.kind # "loop" THEN st
    ELSE ScanBlocks(blocks, i + 1, VisitBlock(st.results, blocks[i], i, num_results),
                    num_results)

PostRequest == [url |-> "https://html.duckduckgo.com/html/", owner |-> <<>>, name |-> <<>>]

\* str(e) of the HTTPStatusError that raise_for_status raises
StatusErrorText(n) ==
    <<"Client error '", IntStr(n.code), " ", n.text,
      "' for url 'https://html.duckduckgo.com/html/'">>

\* the try block of search_duckduckgo
SearchAttempt(num_results, n) ==
    IF n.kind = "raise" THEN Scanned("raise", <<>>, 0, <<n.text>>)
    ELSE IF n.code # 200 THEN Scanned("raise", <<>>, 0, StatusErrorText(n))
    ELSE ScanBlocks(n.body.blocks, 1, Scanned("loop", <<>>, 0, <<>>), num_results)

Searched(found, i) == [results |-> found, scanned |-> i]

\* an except clause that keeps what was collected and adds the error record
KeepAndReport(t) ==
    IF t.kind = "raise" THEN Searched(Append(t.results, [error |-> t.msg]), t.scanned)
    ELSE Searched(t.results, t.scanned)

\* except Exception as e: return [{"error": str(e)}]; otherwise return results
ReportOrReturn(t) ==
    IF t.kind = "raise" THEN Searched(<<[error |-> t.msg]>>, t.scanned)
    ELSE Searched(t.results, t.scanned)

search_duckduckgo(num_results, n) == ReportOrReturn(SearchAttempt(num_results, n))

FormatResult(i, result) ==
    <<"\nResult ", IntStr(i), ":\nTitle: ">> \o GetOr(result, "title", <<"No title">>)
        \o <<"\nURL: ">> \o GetOr(result, "link", <<"No link">>)
        \o <<"\nSnippet: ">> \o GetOr(result, "snippet", <<"No description available">>)
        \o <<"\n">>

WebSearchMax == 15

\* the test of the error record by the truth of its text
FormatSearchTruthy(found) ==
    IF found # <<>> /\ "error" \in DOMAIN found[1] /\ found[1].error # <<"">>
    THEN Return(<<"Error: ">> \o found[1].error)
    ELSE IF found = <<>> THEN Return(<<"No search results found.">>)
    ELSE Return(Join([i \in 1..Len(found) |-> FormatResult(i, found[i])], Separator))

\* web_search after its call of search_duckduckgo
FormatSearch(found) ==
    IF found # <<>> /\ "error" \in DOMAIN found[1]
    THEN Return(<<"Error: ">> \o found[1].error)
    ELSE IF found = <<>> THEN Return(<<"No search results found.">>)
    ELSE Return(Join([i \in 1..Len(found) |-> FormatResult(i, found[i])], Separator))

web_search(n) == FormatSearch(search_duckduckgo(WebSearchMax, n).results)

(*************************** the tool calls *******************************)
Repos == SeqsUpTo({"a", "/"}, MaxRepoLen)

NoCall == [op |-> "none"]

Init ==
    /\ pc = "idle"
    /\ call = NoCall
    /\ net = NoNet
    /\ requests = <<>>
    /\ results = <<>>
    /\ scanned = 0
    /\ ret = [kind |-> "none"]

\* one call: the answer n is consumed only when a request was issued
Finish(c, n, did) ==
    /\ pc' = "done"
    /\ call' = c
    /\ net' = IF did.requests = <<>> THEN NoNet ELSE n
    /\ requests' = did.requests
    /\ ret' = did.ret

GithubGetFile ==
    /\ pc = "idle"
    /\ \E repo \in Repos, n \in ContentsNets :
          /\ Finish([op |-> "github_get_file", repo |-> repo], n, github_get_file(repo, n))
          /\ UNCHANGED <<results, scanned>>

GithubListDirectory ==
    /\ pc = "idle"
    /\ \E repo \in Repos, n \in ContentsNets :
          /\ Finish([op |-> "github_list_directory", repo |-> repo], n,
                    github_list_directory(repo, n))
          /\ UNCHANGED <<results, scanned>>

GithubSearchCode ==
    /\ pc = "idle"
    /\ \E repo \in Repos, n \in SearchNets :
          /\ Finish([op |-> "github_search_code", repo |-> repo], n,
                    github_search_code(repo, n))
          /\ UNCHANGED <<results, scanned>>

CheckGithubConnection ==
    /\ pc = "idle"
    /\ \E n \in RateNets :
          /\ Finish([op |-> "check_github_connection"], n, check_github_connection(n))
          /\ UNCHANGED <<results, scanned>>

Next ==
    \/ GithubGetFile
    \/ GithubListDirectory
    \/ GithubSearchCode
    \/ CheckGithubConnection

Spec == Init /\ [][Next]_vars

FinishSearch(c, n, r, out) ==
    /\ pc' = "done"
    /\ call' = c
    /\ net' = n
    /\ requests' = <<PostRequest>>
    /\ results' = r.results
    /\ scanned' = r.scanned
    /\ ret' = out

SearchDuckduckgo ==
    /\ pc = "idle"
    /\ \E num_results \in (-1)..MaxNum, n \in PageNets :
          FinishSearch([op |-> "search_duckduckgo", num |-> num_results], n,
                       search_duckduckgo(num_results, n),
                       Return(search_duckduckgo(num_results, n).results))

WebSearch ==
    /\ pc = "idle"
    /\ \E n \in PageNets :
          FinishSearch([op |-> "web_search", num |-> WebSearchMax], n,
                       search_duckduckgo(WebSearchMax, n), web_search(n))

NextSearch == SearchDuckduckgo \/ WebSearch

SpecSearch == Init /\ [][NextSearch]_vars

\* the link step alone, on every link up to MaxLinkLen tokens
InitLink ==
    /\ pc = "idle"
    /\ call \in {[op |-> "normalize_link", link |-> l] : l \in Links}
    /\ net = NoNet
    /\ requests = <<>>
    /\ results = <<>>
    /\ scanned = 0
    /\ ret = [kind |-> "none"]

NormalizeStep ==
    /\ pc = "idle"
    /\ pc' = "done"
    /\ ret' = NormalizeLink(call.link)
    /\ UNCHANGED <<call, net, requests, results, scanned>>

NextLink == NormalizeStep

SpecLink == InitLink /\ [][NextLink]_vars

(*************************** claims: src/github3.py ***********************)
RepoOps == {"github_get_file", "github_list_directory", "github_search_code"}

Done(op) == pc = "done" /\ call.op = op

IsErrorText(v) == v # <<>> /\ v[1] = "Error: "

\* exactly two slash-separated parts, neither of them empty
WellFormedRepo(repo) ==
    LET parts == Split(repo, "/")
    IN Len(parts) = 2 /\ parts[1] # <<>> /\ parts[2] # <<>>

\* C1: a repository reference that is not exactly two non-empty slash-separated
\* parts makes github_get_file, github_list_directory and github_search_code
\* return the validation error and issue no request.
C1_MalformedRepoRejected ==
    (pc = "done" /\ call.op \in RepoOps /\ ~WellFormedRepo(call.repo))
        => /\ ret = Return(RepoFormatError(call.repo))
           /\ requests = <<>>

RemoteFailure == net.kind = "raise" \/ (net.kind = "response" /\ net.code # 200)

\* C2: for the three repository operations every remote failure, a transport
\* exception as well as a non-success status, ends in a returned error string;
\* nothing is raised to the host.
C2_RemoteFailureReturned ==
    (pc = "done" /\ call.op \in RepoOps /\ RemoteFailure)
        => ret.kind = "return" /\ IsErrorText(ret.val)

JsonAnswer == net.kind = "response" /\ net.code = 200 /\ net.body.shape \in {"list", "object"}

IsFileObject == net.body.shape = "object" /\ "type" \in DOMAIN net.body.obj
                    /\ net.body.obj.type = "file"

\* the cases in which the claim asks for an error string
GetFileErrorCase ==
    \/ net.body.shape = "list"
    \/ net.body.shape = "object" /\ "type" \in DOMAIN net.body.obj
          /\ net.body.obj.type # "file"
    \/ IsFileObject /\ "content" \notin DOMAIN net.body.obj
    \/ IsFileObject /\ "encoding" \notin DOMAIN net.body.obj
    \/ IsFileObject /\ "encoding" \in DOMAIN net.body.obj
          /\ net.body.obj.encoding # "base64"

Decodable ==
    IsFileObject /\ {"content", "encoding"} \subseteq DOMAIN net.body.obj
        /\ net.body.obj.encoding = "base64"

\* C6: on a success response github_get_file returns an error string, and does
\* not raise, when the path is a directory (a list, or a type other than "file"),
\* when the file object has no content, and when its encoding is missing or not
\* base64; it returns decoded content only for a file object with content and
\* base64 encoding.
C6_GetFileShapeErrors ==
    (Done("github_get_file") /\ JsonAnswer)
        => /\ GetFileErrorCase => (ret.kind = "return" /\ IsErrorText(ret.val))
           /\ (ret.kind = "return" /\ ~IsErrorText(ret.val)) => Decodable

\* the blocks of a listing: the pieces between the separators
BlocksOf(text) == IF text = <<>> THEN <<>> ELSE Split(text, "\n---\n")

ShowsEntry(b, e) ==
    /\ Len(b) = 9
    /\ <<b[1], b[3], b[5], b[7], b[9]>>
          = <<"\nType: ", "\nName: ", "\nPath: ", "\nSize: ", " bytes\n">>
    /\ b[2] = e.type /\ b[4] = e.name /\ b[6] = e.path
    /\ e.type # "file" => b[8] = "N/A"
    /\ (e.type = "file" /\ "size" \in DOMAIN e) => b[8] = IntStr(e.size)

EntriesComplete(items) ==
    \A i \in 1..Len(items) : {"type", "name", "path"} \subseteq DOMAIN items[i]

\* C7: on a list-shaped success response github_list_directory returns one
\* block per entry, in the order of the list, each showing the entry's type,
\* name, path and size, the size being "N/A" for an entry that is no file; on a
\* success response that is no list it returns the not-a-directory error.
C7_ListDirectoryBlocks ==
    (Done("github_list_directory") /\ JsonAnswer)
        => IF net.body.shape = "list"
           THEN EntriesComplete(net.body.items)
                  => /\ ret.kind = "return"
                     /\ LET blocks == BlocksOf(ret.val)
                        IN /\ Len(blocks) = Len(net.body.items)
                           /\ \A i \in 1..Len(blocks) :
                                 ShowsEntry(blocks[i], net.body.items[i])
           ELSE ret = Return(NotADirectory)

\* a listing of two different entries, a directory that carries a size among them
C7_Witness ==
    /\ Done("github_list_directory") /\ JsonAnswer /\ net.body.shape = "list"
    /\ Len(net.body.items) = 2
    /\ EntriesComplete(net.body.items)
    /\ net.body.items[1].type = "dir" /\ "size" \in DOMAIN net.body.items[1]
    /\ net.body.items[2].type = "file" /\ "size" \in DOMAIN net.body.items[2]
    /\ ret.kind = "return" /\ Len(BlocksOf(ret.val)) = 2

\* C8: check_github_connection never raises: whatever the probe's outcome it
\* returns a string, and on an exception the string is the error description.
C8_CheckConnectionReturns ==
    Done("check_github_connection")
        => /\ ret.kind = "return"
           /\ ProbeConnection(net).kind = "raise"
                 => ret.val = <<"Error: ", ProbeConnection(net).msg>>

\* the request itself raised and the call returned the description
C8_Witness ==
    /\ Done("check_github_connection") /\ net.kind = "raise"
    /\ ret = Return(<<"Error: ", net.text>>)

(*************************** claims: src/web_search.py ********************)
SearchOps == {"search_duckduckgo", "web_search"}

Searching == pc = "done" /\ call.op \in SearchOps

GotPage == net.kind = "response" /\ net.code = 200

\* the number of blocks among the first k that have a title and a snippet
CompleteCount(blocks, k) == Cardinality({j \in 1..k : Complete(blocks[j])})

Max2(a, b) == IF a > b THEN a ELSE b

\* the result records of a list: those that are no error record
RecordCount(found) == Cardinality({i \in 1..Len(found) : "error" \notin DOMAIN found[i]})

\* C3: for every page and every maximum num_results, 0 and negative ones
\* included, search_duckduckgo returns at most num_results result records (none
\* when the maximum is 0 or negative), and no block is processed once the count
\* has reached the maximum.
C3_AtMostNumResults ==
    Searching
        => /\ RecordCount(results) <= Max2(call.num, 0)
           /\ GotPage => \A k \in 0..(scanned - 1) :
                             CompleteCount(net.body.blocks, k) < call.num

\* str(e) of the exception a failed request ends in
FailureText == IF net.kind = "raise" THEN <<net.text>> ELSE StatusErrorText(net)

\* C5: when the search request fails (network error, timeout, non-success
\* status) search_duckduckgo returns exactly one record, holding the error
\* description, and web_search returns "Error: " followed by that description.
C5_FailureIsOneErrorRecord ==
    (Searching /\ RemoteFailure)
        => /\ results = <<[error |-> FailureText]>>
           /\ call.op = "web_search" => ret = Return(<<"Error: ">> \o FailureText)

\* a timeout, whose description is empty, reported by web_search
C5_Witness ==
    /\ pc = "done" /\ call.op = "web_search"
    /\ net = NetTimeout
    /\ results = <<[error |-> <<"">>]>>
    /\ ret = Return(<<"Error: ", "">>)

Min2(a, b) == IF a < b THEN a ELSE b

\* C9: on a successful request the records are exactly the blocks that have a
\* title and a snippet, in document order, cut at the maximum; a block missing
\* either gives no record, does not count and causes no error.
C9_RecordsAreCompleteBlocks ==
    (Searching /\ GotPage)
        => LET complete == SelectSeq(net.body.blocks, Complete)
               want == Min2(Max2(call.num, 0), Len(complete))
           IN /\ Len(results) = want
              /\ \A i \in 1..want :
                    /\ DOMAIN results[i] = {"title", "link", "snippet"}
                    /\ results[i].title = Strip(complete[i].title)
                    /\ results[i].snippet = Strip(complete[i].snippet)
                    /\ "href" \in DOMAIN complete[i]
                          => results[i].link = NormalizeLink(complete[i].href).val

IsRecordList(found) ==
    \A i \in 1..Len(found) : DOMAIN found[i] = {"title", "link", "snippet"}

IsOneError(found) == Len(found) = 1 /\ DOMAIN found[1] = {"error"}

\* the loop stopped on a block whose title link has no href
RaisedInBlock ==
    /\ GotPage /\ scanned >= 1
    /\ Complete(net.body.blocks[scanned])
    /\ "href" \notin DOMAIN net.body.blocks[scanned]

\* C10: the list search_duckduckgo returns is either a list of records with no
\* error record or exactly one error record; after an exception in the k-th
\* block the k-1 records collected are dropped and the error record alone is
\* returned, so web_search never shows results together with an error.
C10_AllOrNothing ==
    Searching
        => /\ IsRecordList(results) \/ IsOneError(results)
           /\ RaisedInBlock => IsOneError(results)
           /\ call.op = "web_search"
                 => IF IsOneError(results)
                    THEN ret = Return(<<"Error: ">> \o results[1].error)
                    ELSE ~Has(ret.val, "Error: ")

\* the second block raises after the first one gave a record
C10_Witness ==
    /\ pc = "done" /\ call.op = "search_duckduckgo" /\ call.num >= 2
    /\ GotPage /\ scanned = 2
    /\ Complete(net.body.blocks[1]) /\ "href" \in DOMAIN net.body.blocks[1]
    /\ RaisedInBlock
    /\ IsOneError(results)

(*************************** claims: the link step ************************)
Linked == pc = "done" /\ call.op = "normalize_link"

IsRelative(link) == link # <<>> /\ link[1] = "/"

\* the name=value pieces of the link's query string
QueryPieces(link) == Split(urlparse(link).val.query, "&")

NameOf(piece) == Unquote(Split1(piece, "=")[1])

ValueOf(piece) ==
    IF Len(Split1(piece, "=")) = 2 THEN Unquote(Split1(piece, "=")[2]) ELSE <<>>

\* the query string carries the parameter uddg
CarriesUddg(link) ==
    \E i \in 1..Len(QueryPieces(link)) : NameOf(QueryPieces(link)[i]) = Uddg

FirstUddg(link) ==
    LET ps == SelectSeq(QueryPieces(link), LAMBDA pc0 : NameOf(pc0) = Uddg)
    IN ValueOf(ps[1])

\* the query string carries the parameter uddg with a value that is not empty
CarriesUddgValue(link) ==
    \E i \in 1..Len(QueryPieces(link)) :
        NameOf(QueryPieces(link)[i]) = Uddg /\ ValueOf(QueryPieces(link)[i]) # <<>>

FirstUddgValue(link) ==
    LET ps == SelectSeq(QueryPieces(link),
                        LAMBDA pc0 : NameOf(pc0) = Uddg /\ ValueOf(pc0) # <<>>)
    IN ValueOf(ps[1])

\* C4 as stated: a link beginning with '/' whose query string carries uddg
\* becomes that parameter's value, one without it becomes the origin followed
\* by the link, and so does one that fails to parse; any other link is left
\* unchanged; no exception escapes.
C4_UddgPresentUsed ==
    Linked
        => /\ ret.kind = "return"
           /\ ret.val = IF ~IsRelative(call.link) THEN call.link
                        ELSE IF urlparse(call.link).kind = "raise" THEN Origin \o call.link
                        ELSE IF CarriesUddg(call.link) THEN FirstUddg(call.link)
                        ELSE Origin \o call.link

\* C4 amended: a link beginning with '/' whose query string carries uddg with
\* a value that is not empty becomes the first such value, decoded; one that
\* carries no such value, or that fails to parse, becomes the origin followed by
\* the link; any other link is left unchanged; no exception escapes.
C4_UddgValueUsed ==
    Linked
        => /\ ret.kind = "return"
           /\ ret.val = IF ~IsRelative(call.link) THEN call.link
                        ELSE IF urlparse(call.link).kind = "raise" THEN Origin \o call.link
                        ELSE IF CarriesUddgValue(call.link) THEN FirstUddgValue(call.link)
                        ELSE Origin \o call.link

\* a redirect whose destination is an escaped slash, resolved to the slash
C4_Witness ==
    /\ Linked
    /\ call.link = <<"/", "?", "uddg", "=", "%2F">>
    /\ ret = Return(<<"/">>)

====
